---- MODULE Spec2Model ----
(***************************************************************************)
(* Ledger-synchronization core of starcoin: the two-tier Storage           *)
(* (storage/src/storage.rs), the AccumulatorStore built on a Repository    *)
(* (storage/src/accumulator/mod.rs) and the BlockSyncTask pagination state *)
(* (sync/src/tasks/block_sync_task.rs).                                    *)
(*                                                                         *)
(* Three specifications share the module, one per component:               *)
(*   Spec            the two-tier Storage                                  *)
(*   SpecAccumulator the AccumulatorStore                                  *)
(*   SpecSync        the BlockSyncTask                                     *)
(* Every call of a tier (an InnerRepository / Repository trait object) can *)
(* complete with Ok or with Err; a tier call that returns Err has left the *)
(* tier's content as it was.                                               *)
(***************************************************************************)
EXTENDS Integers, Sequences, FiniteSets, TLC

\* ------------------------------------------------------------------ bounds
NumKeys == 2
NumVals == 2
NumIndices == 2
NumHashes == 2
MaxList == 2
MaxLeaves == 3
MaxBatch == 3
NumBlocks == 2
MaxChain == 2
WordBits == 3

Keys == 1..NumKeys
Vals == 1..NumVals
\* NodeIndex values (positions) and HashValue values of the accumulator.
Indices == 1..NumIndices
Hashes == 1..NumHashes
\* Block identifiers: those of the accumulator's leaves and one more, a
\* block that is no leaf.
BlockIds == 1..(MaxLeaves + 1)

\* Option::None of Result<Option<Vec<u8>>>: the key holds no value.
Absent == 0

VARIABLES
    cache,      \* Storage.cache: the cache tier's content of the namespace
    db,         \* Storage.db: the durable tier's content of the namespace
    last,       \* the last completed Storage call: its arguments, the
                \* outcome of each tier call, and what it returned
    indexStore, \* AccumulatorStore.index_storage: NodeIndex -> HashValue
    nodeStore,  \* AccumulatorStore.node_store: HashValue -> AccumulatorNode
    accLast,    \* the last completed AccumulatorStore call
    task,       \* the BlockSyncTask the driver holds
    nextOut,    \* what the last task.next() returned for that task
    stepOut,    \* the last new_sub_task(): its inputs and its result
    collector,  \* the BlockCollector: its chain, its best block info, its
                \* skip_pow_verify flag
    colLast,    \* the last collect(): its item, the outcome of the block
                \* application, the calls it made in order, its result
    drive,      \* a run of the task chain: the state reached, the initial
                \* cursor, the leaf ids read and the batch sizes so far
    pending,    \* the items fetched and not yet handed to the collector
    progress    \* a task chain in machine arithmetic: the state reached,
                \* the initial cursor and leaf count, the build, the last
                \* total_items() call

storageVars == <<cache, db, last>>
accVars == <<indexStore, nodeStore, accLast>>
syncVars == <<task, nextOut, stepOut>>
collectorVars == <<collector, colLast>>
driveVars == <<drive, pending>>
pipelineVars == <<collector, colLast, drive, pending, progress>>

vars == <<cache, db, last, indexStore, nodeStore, accLast, task, nextOut,
          stepOut, collector, colLast, drive, pending, progress>>

\* ------------------------------------------------- InnerRepository (a tier)
Ok(v) == [tag |-> "ok", val |-> v]
Err == [tag |-> "err", val |-> Absent]
Panic == [tag |-> "panic", val |-> Absent]

\* InnerRepository::get: Ok(Some(v)) / Ok(None) of the content, or Err.
InnerGet(repo, k, ok) == IF ok THEN Ok(repo[k]) ELSE Err

\* InnerRepository::put: the content after the call.
InnerPut(repo, k, v, ok) == IF ok THEN [repo EXCEPT ![k] = v] ELSE repo

\* InnerRepository::remove: the content after the call.
InnerRemove(repo, k, ok) == IF ok THEN [repo EXCEPT ![k] = Absent] ELSE repo

\* --------------------------------------------------------- Storage (two-tier)
StorageGetFallsBackOnMiss(c, d, k, cacheOk, dbOk) ==
    LET r == InnerGet(c, k, cacheOk)
    IN  IF r.tag = "ok" /\ r.val # Absent THEN r ELSE InnerGet(d, k, dbOk)

\* Storage::get: cache first; any Ok of the cache is the answer, an Err of
\* the cache falls through to the durable tier.
StorageGet(c, d, k, cacheOk, dbOk) ==
    LET r == InnerGet(c, k, cacheOk)
    IN  IF r.tag = "ok" THEN r ELSE InnerGet(d, k, dbOk)

\* Storage::put, the durable tier after the call: db.put(..) comes first.
PutDb(d, k, v, dbOk) == InnerPut(d, k, v, dbOk)

PutCacheNoWrite(c, k, v, dbOk, cacheOk) == c

PutCacheBeforeDb(c, k, v, dbOk, cacheOk) == InnerPut(c, k, v, cacheOk)

\* Storage::put, the cache tier after the call: db.put(..).unwrap() panics
\* on Err, so cache.put(..) runs only after the durable write succeeded.
PutCache(c, k, v, dbOk, cacheOk) ==
    IF dbOk THEN InnerPut(c, k, v, cacheOk) ELSE c

\* Storage::put, what the caller gets: the unwrap() of a failed durable
\* write panics; otherwise the Result of cache.put(..).
PutResult(dbOk, cacheOk) ==
    IF ~dbOk THEN Panic
    ELSE IF cacheOk THEN Ok(Absent) ELSE Err

\* Storage::remove, the durable tier after the call.
RemoveDb(d, k, dbOk) == InnerRemove(d, k, dbOk)

RemoveCacheAlways(c, k, dbOk, cacheOk) == InnerRemove(c, k, cacheOk)

\* Storage::remove, the cache tier after the call: cache.remove(..) is in
\* the Ok arm of the durable removal only.
RemoveCache(c, k, dbOk, cacheOk) ==
    IF dbOk THEN InnerRemove(c, k, cacheOk) ELSE c

\* Storage::remove, what the caller gets: bail!(..) on a durable failure,
\* otherwise the Result of cache.remove(..).
RemoveResult(dbOk, cacheOk) ==
    IF dbOk /\ cacheOk THEN Ok(Absent) ELSE Err

Call(op, k, v, dbOk, cacheOk, res) ==
    [op |-> op, key |-> k, val |-> v, dbOk |-> dbOk, cacheOk |-> cacheOk,
     res |-> res]

StorageInit ==
    /\ cache = [k \in Keys |-> Absent]
    /\ db = [k \in Keys |-> Absent]
    /\ last = Call("new", 1, Absent, TRUE, TRUE, Ok(Absent))

\* Storage::put(key, value)
StoragePut ==
    \E k \in Keys, v \in Vals, dbOk \in BOOLEAN, cacheOk \in BOOLEAN :
        /\ db' = PutDb(db, k, v, dbOk)
        /\ cache' = PutCache(cache, k, v, dbOk, cacheOk)
        /\ last' = Call("put", k, v, dbOk, cacheOk, PutResult(dbOk, cacheOk))

\* Storage::remove(key)
StorageRemove ==
    \E k \in Keys, dbOk \in BOOLEAN, cacheOk \in BOOLEAN :
        /\ db' = RemoveDb(db, k, dbOk)
        /\ cache' = RemoveCache(cache, k, dbOk, cacheOk)
        /\ last' = Call("remove", k, Absent, dbOk, cacheOk,
                        RemoveResult(dbOk, cacheOk))

\* Storage::get(key)
StorageGetCall ==
    \E k \in Keys, dbOk \in BOOLEAN, cacheOk \in BOOLEAN :
        /\ last' = Call("get", k, Absent, dbOk, cacheOk,
                        StorageGet(cache, db, k, cacheOk, dbOk))
        /\ UNCHANGED <<cache, db>>


\* ------------------------------------------------------- AccumulatorStore
\* The two CodecStorage views keep disjoint keys (8-byte positions, 32-byte
\* hashes), so each is a map of its own. An AccumulatorNode is identified
\* by its hash: node_store holds h under key h, or nothing.

\* CodecStorage::get: the Repository's answer for the encoded key.
CodecGet(store, k, ok) == IF ok THEN Ok(store[k]) ELSE Err

\* CodecStorage::put: the store after the call.
CodecPut(store, k, v, ok) == IF ok THEN [store EXCEPT ![k] = v] ELSE store

\* CodecStorage::remove: the store after the call.
CodecRemove(store, k, ok) ==
    IF ok THEN [store EXCEPT ![k] = Absent] ELSE store

\* Result<()> of a call.
Unit(ok) == IF ok THEN Ok(Absent) ELSE Err

AccGetAbsentOnMissingIndex(idx, nodes, index, idxOk, nodeOk) ==
    LET r == CodecGet(idx, index, idxOk)
    IN  IF r.tag = "err" THEN Panic
        ELSE IF r.val = Absent THEN Ok(Absent)
        ELSE CodecGet(nodes, r.val, nodeOk)

AccGetErrOnMissingNode(idx, nodes, index, idxOk, nodeOk) ==
    LET r == CodecGet(idx, index, idxOk)
    IN  IF r.tag = "err" THEN Panic
        ELSE IF r.val = Absent THEN Err
        ELSE IF nodeOk /\ nodes[r.val] = Absent THEN Err
        ELSE CodecGet(nodes, r.val, nodeOk)

\* AccumulatorStore::get: index_storage.get(index).unwrap() panics on Err;
\* None bails; Some(hash) returns node_store.get(hash) as it is.
AccGet(idx, nodes, index, idxOk, nodeOk) ==
    LET r == CodecGet(idx, index, idxOk)
    IN  IF r.tag = "err" THEN Panic
        ELSE IF r.val = Absent THEN Err
        ELSE CodecGet(nodes, r.val, nodeOk)

\* AccumulatorStore::get: the number of node_store lookups it performs.
AccGetNodeLookups(idx, index, idxOk) ==
    LET r == CodecGet(idx, index, idxOk)
    IN  IF r.tag = "ok" /\ r.val # Absent THEN 1 ELSE 0

\* The for loops of delete_nodes / delete_nodes_index: remove list[i],
\* list[i+1], ... in order; the removal at position failAt returns Err and
\* `?` leaves the loop there (failAt = 0: no removal fails).
RECURSIVE RemoveLoop(_, _, _, _)
RemoveLoop(store, list, i, failAt) ==
    IF i > Len(list) THEN store
    ELSE IF i = failAt THEN CodecRemove(store, list[i], FALSE)
    ELSE RemoveLoop(CodecRemove(store, list[i], TRUE), list, i + 1, failAt)

\* AccumulatorStore::delete_nodes_index, index_storage after the call.
DeleteNodesIndexStore(idx, list, failAt) ==
    IF Len(list) > 0 THEN RemoveLoop(idx, list, 1, failAt) ELSE idx

DeleteNodesIndexOkOnEmpty(list, failAt) == Unit(failAt = 0)

\* AccumulatorStore::delete_nodes_index, what the caller gets: ensure!
\* fails on an empty list, `?` returns the first removal error.
DeleteNodesIndexResult(list, failAt) ==
    IF Len(list) > 0 THEN Unit(failAt = 0) ELSE Err

\* A loop that goes on after a failed removal.
RECURSIVE RemoveLoopBestEffort(_, _, _, _)
RemoveLoopBestEffort(store, list, i, failAt) ==
    IF i > Len(list) THEN store
    ELSE RemoveLoopBestEffort(CodecRemove(store, list[i], i # failAt), list,
                              i + 1, failAt)

DeleteNodesStoreBestEffort(nodes, list, failAt) ==
    RemoveLoopBestEffort(nodes, list, 1, failAt)

\* AccumulatorStore::delete_nodes, node_store after the call.
DeleteNodesStore(nodes, list, failAt) == RemoveLoop(nodes, list, 1, failAt)

\* AccumulatorStore::delete_nodes, what the caller gets.
DeleteNodesResult(list, failAt) == Unit(failAt = 0)

\* The sequences of n distinct elements of S.
InjectiveSeqs(S, n) ==
    {f \in [1..n -> S] : \A i, j \in 1..n : i # j => f[i] # f[j]}

\* The Vec arguments of delete_nodes / delete_nodes_index: each node listed
\* once, the empty Vec included.
Lists(S) == UNION {InjectiveSeqs(S, n) : n \in 0..MaxList}

AccCall(op, index, hash, list, failAt, idxOk, nodeOk, res, lookups) ==
    [op |-> op, index |-> index, hash |-> hash, list |-> list,
     failAt |-> failAt, idxOk |-> idxOk, nodeOk |-> nodeOk, res |-> res,
     lookups |-> lookups]

AccInit ==
    /\ indexStore = [i \in Indices |-> Absent]
    /\ nodeStore = [h \in Hashes |-> Absent]
    /\ accLast = AccCall("new", 1, 1, <<>>, 0, TRUE, TRUE, Ok(Absent), 0)

\* AccumulatorStore::get(index)
AccGetCall ==
    \E index \in Indices, idxOk \in BOOLEAN, nodeOk \in BOOLEAN :
        /\ accLast' = AccCall("get", index, 1, <<>>, 0, idxOk, nodeOk,
                              AccGet(indexStore, nodeStore, index, idxOk,
                                     nodeOk),
                              AccGetNodeLookups(indexStore, index, idxOk))
        /\ UNCHANGED <<indexStore, nodeStore>>

\* AccumulatorStore::get_node(hash)
AccGetNode ==
    \E hash \in Hashes, nodeOk \in BOOLEAN :
        /\ accLast' = AccCall("get_node", 1, hash, <<>>, 0, TRUE, nodeOk,
                              CodecGet(nodeStore, hash, nodeOk), 1)
        /\ UNCHANGED <<indexStore, nodeStore>>

\* AccumulatorStore::save(index, hash)
AccSave ==
    \E index \in Indices, hash \in Hashes, ok \in BOOLEAN :
        /\ indexStore' = CodecPut(indexStore, index, hash, ok)
        /\ accLast' = AccCall("save", index, hash, <<>>, 0, ok, TRUE,
                              Unit(ok), 0)
        /\ UNCHANGED nodeStore

\* AccumulatorStore::save_node(node): the key is node.hash()
AccSaveNode ==
    \E hash \in Hashes, ok \in BOOLEAN :
        /\ nodeStore' = CodecPut(nodeStore, hash, hash, ok)
        /\ accLast' = AccCall("save_node", 1, hash, <<>>, 0, TRUE, ok,
                              Unit(ok), 0)
        /\ UNCHANGED indexStore

\* AccumulatorStore::delete_nodes(node_hash_vec)
AccDeleteNodes ==
    \E list \in Lists(Hashes) : \E failAt \in 0..Len(list) :
        /\ nodeStore' = DeleteNodesStore(nodeStore, list, failAt)
        /\ accLast' = AccCall("delete_nodes", 1, 1, list, failAt, TRUE,
                              failAt = 0, DeleteNodesResult(list, failAt), 0)
        /\ UNCHANGED indexStore

\* AccumulatorStore::delete_nodes_index(vec_index)
AccDeleteNodesIndex ==
    \E list \in Lists(Indices) : \E failAt \in 0..Len(list) :
        /\ indexStore' = DeleteNodesIndexStore(indexStore, list, failAt)
        /\ accLast' = AccCall("delete_nodes_index", 1, 1, list, failAt,
                              failAt = 0, TRUE,
                              DeleteNodesIndexResult(list, failAt), 0)
        /\ UNCHANGED nodeStore


\* ----------------------------------------------------------- BlockSyncTask
\* Option::None of an Option<..>.
None == [some |-> FALSE]
Some(x) == [some |-> TRUE, val |-> x]

\* SyncBlockData::new(block, block_info, peer_id); a block is named by its
\* id, info says whether execution info is carried.
SyncBlockData(block, info, peer) ==
    [block |-> block, info |-> info, peer |-> peer]

Peers == {"none", "p1"}

\* MerkleAccumulator::num_leaves()
NumLeavesOf(acc) == Len(acc)

\* MerkleAccumulator::get_leaves(start, false, max): the leaves at
\* positions start, start+1, ... (0-based), at most max of them.
GetLeaves(acc, start, max) ==
    LET last_ == IF start + max < Len(acc) THEN start + max ELSE Len(acc)
    IN  IF start >= Len(acc) THEN <<>>
        ELSE [i \in 1..(last_ - start) |-> acc[start + i]]

\* The fold over block_ids.zip(block_with_info): the ids with a None slot,
\* in order.
RECURSIVE NoExistBlockIds(_, _)
NoExistBlockIds(ids, slots) ==
    IF ids = <<>> \/ slots = <<>> THEN <<>>
    ELSE (IF Head(slots).some THEN <<>> ELSE <<Head(ids)>>)
             \o NoExistBlockIds(Tail(ids), Tail(slots))

\* The same fold: result_map, holding the Some slots under their ids.
RECURSIVE LocalResultMap(_, _)
LocalResultMap(ids, slots) ==
    IF ids = <<>> \/ slots = <<>> THEN <<>>
    ELSE LET rest == LocalResultMap(Tail(ids), Tail(slots))
         IN  IF Head(slots).some
             THEN <<<<Head(ids), Head(slots).val>>>> \o rest
             ELSE rest

\* HashMap as the sequence of its insertions <<key, value>>; the entry of a
\* key is its last insertion.
MapHas(m, k) == \E i \in 1..Len(m) : m[i][1] = k

MapGet(m, k) ==
    LET i == CHOOSE i \in 1..Len(m) :
                 m[i][1] = k /\ \A j \in (i + 1)..Len(m) : m[j][1] # k
    IN  m[i][2]

\* HashMap::remove(k): the map without k.
MapRemove(m, k) == SelectSeq(m, LAMBDA e : e[1] # k)

\* The fold over the Fetcher's blocks: each is inserted under block.id()
\* as SyncBlockData::new(block, None, peer_id).
FetchedInto(m, resp) ==
    m \o [i \in 1..Len(resp) |->
             <<resp[i].block, SyncBlockData(resp[i].block, FALSE,
                                            resp[i].peer)>>]

CollectInMapOrder(ids, m) ==
    IF \E i \in 1..Len(ids) : ~MapHas(m, ids[i])
    THEN [tag |-> "err", items |-> <<>>]
    ELSE [tag |-> "ok",
          items |-> [i \in 1..Len(SelectSeq(m, LAMBDA e :
                                   \E j \in 1..Len(ids) : ids[j] = e[1]))
                     |-> SelectSeq(m, LAMBDA e :
                             \E j \in 1..Len(ids) : ids[j] = e[1])[i][2]]]

RECURSIVE CollectSkippingMissing(_, _)
CollectSkippingMissing(ids, m) ==
    IF ids = <<>> THEN [tag |-> "ok", items |-> <<>>]
    ELSE LET rest == CollectSkippingMissing(Tail(ids), MapRemove(m, Head(ids)))
         IN  IF MapHas(m, Head(ids))
             THEN [tag |-> "ok",
                   items |-> <<MapGet(m, Head(ids))>> \o rest.items]
             ELSE rest

\* block_ids.iter().map(|id| result_map.remove(id).ok_or_else(..)).collect():
\* the items in the order of block_ids, or Err at the first id not in the map.
RECURSIVE CollectInOrder(_, _)
CollectInOrder(ids, m) ==
    IF ids = <<>> THEN [tag |-> "ok", items |-> <<>>]
    ELSE IF ~MapHas(m, Head(ids)) THEN [tag |-> "err", items |-> <<>>]
    ELSE LET rest == CollectInOrder(Tail(ids), MapRemove(m, Head(ids)))
         IN  IF rest.tag = "err" THEN rest
             ELSE [tag |-> "ok",
                   items |-> <<MapGet(m, Head(ids))>> \o rest.items]

\* new_sub_task, local-first branch, after the fold: fetch what the local
\* store did not hold (error of the Fetcher: `?`), merge, and collect in
\* the order of block_ids.
LocalFirstResult(ids, slots, fetch) ==
    LET noExist == NoExistBlockIds(ids, slots)
        localMap == LocalResultMap(ids, slots)
    IN  IF noExist = <<>> THEN CollectInOrder(ids, localMap)
        ELSE IF fetch.tag = "err" THEN [tag |-> "err", items |-> <<>>]
        ELSE CollectInOrder(ids, FetchedInto(localMap, fetch.blocks))

FetchAllInRequestedOrder(ids, fetch) ==
    IF fetch.tag = "err" THEN [tag |-> "err", items |-> <<>>]
    ELSE CollectInOrder(ids, FetchedInto(<<>>, fetch.blocks))

\* new_sub_task, the other branch: the Fetcher's blocks, each mapped to
\* SyncBlockData::new(block, None, peer_id), in the Fetcher's order.
FetchAllResult(ids, fetch) ==
    IF fetch.tag = "err" THEN [tag |-> "err", items |-> <<>>]
    ELSE [tag |-> "ok",
          items |-> [i \in 1..Len(fetch.blocks) |->
                        SyncBlockData(fetch.blocks[i].block, FALSE,
                                      fetch.blocks[i].peer)]]

\* BlockSyncTask::new_sub_task: the batch of the step, or its error.
SubTaskResult(t, local, fetch) ==
    LET ids == GetLeaves(t.accumulator, t.start_number, t.batch_size)
    IN  IF ids = <<>> THEN [tag |-> "ok", items |-> <<>>]
        ELSE IF t.check_local_store
        THEN IF local.tag = "err" THEN [tag |-> "err", items |-> <<>>]
             ELSE LocalFirstResult(ids, local.slots, fetch)
        ELSE FetchAllResult(ids, fetch)

\* The ids new_sub_task hands to fetcher.fetch_block, None when it does not
\* call the Fetcher.
FetchRequest(t, local) ==
    LET ids == GetLeaves(t.accumulator, t.start_number, t.batch_size)
    IN  IF ids = <<>> THEN None
        ELSE IF ~t.check_local_store THEN Some(ids)
        ELSE IF local.tag = "err" THEN None
        ELSE IF NoExistBlockIds(ids, local.slots) = <<>> THEN None
        ELSE Some(NoExistBlockIds(ids, local.slots))

TaskNextChecksOldCursor(t) ==
    LET next_start_number == t.start_number + t.batch_size
    IN  IF t.start_number >= NumLeavesOf(t.accumulator) THEN None
        ELSE Some([t EXCEPT !.start_number = next_start_number])

TaskNextSkipsLeaf(t) ==
    LET next_start_number == t.start_number + t.batch_size + 1
    IN  IF next_start_number > NumLeavesOf(t.accumulator) THEN None
        ELSE Some([t EXCEPT !.start_number = next_start_number])

TaskNextDropsPartial(t) ==
    LET next_start_number == t.start_number + t.batch_size
    IN  IF next_start_number + t.batch_size > NumLeavesOf(t.accumulator)
        THEN None
        ELSE Some([t EXCEPT !.start_number = next_start_number])

TaskNextOffByOne(t) ==
    LET next_start_number == t.start_number + t.batch_size
    IN  IF next_start_number >= NumLeavesOf(t.accumulator) THEN None
        ELSE Some([t EXCEPT !.start_number = next_start_number])

\* BlockSyncTask::next
TaskNext(t) ==
    LET next_start_number == t.start_number + t.batch_size
    IN  IF next_start_number > NumLeavesOf(t.accumulator) THEN None
        ELSE Some([accumulator |-> t.accumulator,
                   start_number |-> next_start_number,
                   fetcher |-> t.fetcher,
                   check_local_store |-> t.check_local_store,
                   local_store |-> t.local_store,
                   batch_size |-> t.batch_size])

\* BlockSyncTask::new(accumulator, start_number, fetcher, check_local_store,
\* local_store, batch_size)
NewTask(acc, start, flag, batch) ==
    [accumulator |-> acc, start_number |-> start, fetcher |-> "fetcher",
     check_local_store |-> flag, local_store |-> "local_store",
     batch_size |-> batch]

\* An accumulator of n leaves; leaf order is not the order of the ids.
Accumulator(n) == [i \in 1..n |-> MaxLeaves + 1 - i]

\* What LocalStore::get_block_with_info(ids) may answer: an error, or one
\* slot per id, None or the block of that id with or without execution info.
LocalSlot(id, choice) ==
    IF choice = "absent" THEN None
    ELSE Some(SyncBlockData(id, choice = "executed", "none"))

LocalAnswers(ids) ==
    {[tag |-> "err", slots |-> <<>>]} \cup
    {[tag |-> "ok",
      slots |-> [j \in 1..Len(ids) |-> LocalSlot(ids[j], choice[j])]] :
        choice \in [1..Len(ids) -> {"absent", "block", "executed"}]}

\* What Fetcher::fetch_block may answer: an error, or blocks in any order,
\* some missing, some not asked for, all from one peer or from none known.
FetchAnswers ==
    {[tag |-> "err", blocks |-> <<>>]} \cup
    {[tag |-> "ok", blocks |-> [i \in 1..Len(bs) |->
                                   [block |-> bs[i], peer |-> p]]] :
        bs \in UNION {InjectiveSeqs(BlockIds, n) : n \in 0..MaxBatch},
        p \in Peers}

NotCalled == [called |-> FALSE]

NoFetch == [tag |-> "unused", blocks |-> <<>>]

NoLocal == [tag |-> "unused", slots |-> <<>>]

SyncInit ==
    /\ \E n \in 0..MaxLeaves, start \in 0..(MaxLeaves + 1),
          flag \in BOOLEAN, batch \in 0..MaxBatch :
           task = NewTask(Accumulator(n), start, flag, batch)
    /\ nextOut = NotCalled
    /\ stepOut = NotCalled

\* The sync variables while another component runs.
SyncIdle ==
    /\ task = NewTask(Accumulator(MaxLeaves), 0, TRUE, MaxBatch)
    /\ nextOut = NotCalled
    /\ stepOut = NotCalled

\* The answers a step can get: the LocalStore is asked only in the
\* local-first branch of a non-empty batch, the Fetcher only when
\* FetchRequest says so.
LocalChoices(t) ==
    LET ids == GetLeaves(t.accumulator, t.start_number, t.batch_size)
    IN  IF ids # <<>> /\ t.check_local_store THEN LocalAnswers(ids)
        ELSE {NoLocal}

FetchChoices(t, local) ==
    IF FetchRequest(t, local).some THEN FetchAnswers ELSE {NoFetch}

\* task.new_sub_task(), with the answers of its two collaborators; it takes
\* the task by value, so a task state runs its step once.
NewSubTask ==
    /\ ~stepOut.called
    /\ \E local \in LocalChoices(task) : \E fetch \in FetchChoices(task, local) :
        /\ stepOut' = [called |-> TRUE,
                       ids |-> GetLeaves(task.accumulator, task.start_number,
                                         task.batch_size),
                       localFirst |-> task.check_local_store,
                       local |-> local,
                       request |-> FetchRequest(task, local),
                       fetch |-> fetch,
                       res |-> SubTaskResult(task, local, fetch)]
    /\ UNCHANGED <<task, nextOut>>

\* task.next()
CallNext ==
    /\ nextOut' = [called |-> TRUE, out |-> TaskNext(task)]
    /\ UNCHANGED <<task, stepOut>>

\* The driver goes on with the state next() returned.
DriverAdvance ==
    /\ nextOut.called
    /\ nextOut.out.some
    /\ task' = nextOut.out.val
    /\ nextOut' = NotCalled
    /\ stepOut' = NotCalled

\* --------------------------------------------------------- BlockCollector
\* The blocks handed to the collector.
CollectorBlocks == 1..NumBlocks

\* block.header().timestamp(): the timestamp is named by its block.
TimestampOf(block) == block

\* A call the collector made on a collaborator, and whether it succeeded.
Did(call, block, peer, ok) ==
    [call |-> call, block |-> block, peer |-> peer, ok |-> ok]

\* The chain after it took a block in: one block longer, its total
\* difficulty raised by the block's.
ChainExtend(chain, block) ==
    [chain EXCEPT !.blocks = Append(@, block),
                  !.total_difficulty = @ + 1]

\* chain.time_service().adjust(GlobalTimeOnChain::new(timestamp))
ChainAdjust(chain, timestamp) == [chain EXCEPT !.time = timestamp]

\* BlockCollector::new_with_handle(current_block_info, chain, .., skip)
NewCollector(best, skip) ==
    [current_block_info |-> [total_difficulty |-> best],
     chain |-> [blocks |-> <<>>, total_difficulty |-> 0, time |-> 0],
     skip_pow_verify |-> skip]

\* The verification entry point apply_block chooses.
ApplyEntry(col) ==
    IF col.skip_pow_verify THEN "apply_with_verifier" ELSE "apply"

PeerFaultReportsFirst(block, peer, out) ==
    IF peer # "none"
    THEN [trace |-> <<Did("report_peer", block, peer, TRUE),
                      Did("save_failed_block", block, peer, out.saveOk)>>,
          res |-> IF out.saveOk THEN "err_verify" ELSE "err_save"]
    ELSE [trace |-> <<Did("save_failed_block", block, peer, out.saveOk)>>,
          res |-> IF out.saveOk THEN "err_verify" ELSE "err_save"]

\* apply_block, the arm of a ConnectBlockError other than FutureBlock:
\* save_failed_block(..)?, then report_peer if the peer is known, then
\* Err(e).
PeerFault(block, peer, out) ==
    IF ~out.saveOk
    THEN [trace |-> <<Did("save_failed_block", block, peer, FALSE)>>,
          res |-> "err_save"]
    ELSE [trace |-> <<Did("save_failed_block", block, peer, TRUE)>>
                      \o (IF peer # "none"
                          THEN <<Did("report_peer", block, peer, TRUE)>>
                          ELSE <<>>),
          res |-> "err_verify"]

ApplyBlockRecordsEveryError(col, block, peer, out) ==
    LET entry == <<Did(ApplyEntry(col), block, peer, out.apply = "ok")>>
    IN  IF out.apply = "ok"
        THEN [chain |-> ChainExtend(col.chain, block), trace |-> entry,
              res |-> "ok"]
        ELSE IF out.apply = "future"
        THEN [chain |-> col.chain, trace |-> entry, res |-> "err_future"]
        ELSE [chain |-> col.chain,
              trace |-> entry \o PeerFault(block, peer, out).trace,
              res |-> PeerFault(block, peer, out).res]

ApplyBlockRecordsFuture(col, block, peer, out) ==
    LET entry == <<Did(ApplyEntry(col), block, peer, out.apply = "ok")>>
    IN  IF out.apply = "ok"
        THEN [chain |-> ChainExtend(col.chain, block), trace |-> entry,
              res |-> "ok"]
        ELSE IF out.apply = "future"
        THEN [chain |-> col.chain,
              trace |-> entry \o PeerFault(block, peer, out).trace,
              res |-> "err_future"]
        ELSE IF out.apply = "verify"
        THEN [chain |-> col.chain,
              trace |-> entry \o PeerFault(block, peer, out).trace,
              res |-> PeerFault(block, peer, out).res]
        ELSE [chain |-> col.chain, trace |-> entry, res |-> "err_other"]

\* BlockCollector::apply_block. out.apply is what the chain answered:
\* "ok", "future" (ConnectBlockError::FutureBlock), "verify" (another
\* ConnectBlockError) or "other" (an error that is no ConnectBlockError).
ApplyBlock(col, block, peer, out) ==
    LET entry == <<Did(ApplyEntry(col), block, peer, out.apply = "ok")>>
    IN  IF out.apply = "ok"
        THEN [chain |-> ChainExtend(col.chain, block), trace |-> entry,
              res |-> "ok"]
        ELSE IF out.apply = "future"
        THEN [chain |-> col.chain, trace |-> entry, res |-> "err_future"]
        ELSE IF out.apply = "verify"
        THEN [chain |-> col.chain,
              trace |-> entry \o PeerFault(block, peer, out).trace,
              res |-> PeerFault(block, peer, out).res]
        ELSE [chain |-> col.chain, trace |-> entry, res |-> "err_other"]

ConnectedNoticeOnTie(col, chain, block, out) ==
    IF chain.total_difficulty >= col.current_block_info.total_difficulty
    THEN <<Did("handle", block, "none", out.handleOk)>>
    ELSE <<>>

\* collect: the BlockConnectedEvent, handed to the event handle when the
\* chain's total difficulty passed that of current_block_info.
ConnectedNotice(col, chain, block, out) ==
    IF chain.total_difficulty > col.current_block_info.total_difficulty
    THEN <<Did("handle", block, "none", out.handleOk)>>
    ELSE <<>>

\* collect, the arm of an item with its BlockInfo: chain.connect(..)?
CollectExecuted(col, item, out) ==
    IF out.connectOk
    THEN [collector |-> [col EXCEPT !.chain = ChainExtend(@, item.block)],
          trace |-> <<Did("connect", item.block, item.peer, TRUE)>>,
          res |-> "need"]
    ELSE [collector |-> col,
          trace |-> <<Did("connect", item.block, item.peer, FALSE)>>,
          res |-> "err_connect"]

\* collect, the arm of an item without BlockInfo.
CollectUnexecuted(col, item, out) ==
    LET a == ApplyBlock(col, item.block, item.peer, out)
        adjusted == ChainAdjust(a.chain, TimestampOf(item.block))
        adjust == <<Did("adjust", item.block, "none", TRUE)>>
    IN  IF a.res # "ok"
        THEN [collector |-> [col EXCEPT !.chain = a.chain],
              trace |-> a.trace, res |-> a.res]
        ELSE IF ~out.tdOk
        THEN [collector |-> [col EXCEPT !.chain = adjusted],
              trace |-> a.trace \o adjust
                          \o <<Did("get_total_difficulty", item.block,
                                   "none", FALSE)>>,
              res |-> "err_td"]
        ELSE [collector |-> [col EXCEPT !.chain = adjusted],
              trace |-> a.trace \o adjust
                          \o <<Did("get_total_difficulty", item.block,
                                   "none", TRUE)>>
                          \o ConnectedNotice(col, adjusted, item.block, out),
              res |-> "need"]

CollectAlwaysApplies(col, item, out) == CollectUnexecuted(col, item, out)

\* BlockCollector::collect
Collect(col, item, out) ==
    IF item.info THEN CollectExecuted(col, item, out)
    ELSE CollectUnexecuted(col, item, out)

\* What the collaborators of one collect may answer; a collaborator the
\* call does not reach answers nothing.
Outcome(apply, connectOk, saveOk, tdOk, handleOk) ==
    [apply |-> apply, connectOk |-> connectOk, saveOk |-> saveOk,
     tdOk |-> tdOk, handleOk |-> handleOk]

Outcomes(item) ==
    IF item.info
    THEN {Outcome("ok", c, TRUE, TRUE, TRUE) : c \in BOOLEAN}
    ELSE {Outcome("ok", TRUE, TRUE, TRUE, h) : h \in BOOLEAN}
         \cup {Outcome("ok", TRUE, TRUE, FALSE, TRUE),
               Outcome("future", TRUE, TRUE, TRUE, TRUE),
               Outcome("other", TRUE, TRUE, TRUE, TRUE)}
         \cup {Outcome("verify", TRUE, sv, TRUE, TRUE) : sv \in BOOLEAN}

\* The items handed to collect.
Items ==
    {SyncBlockData(b, i, p) : b \in CollectorBlocks, i \in BOOLEAN,
                              p \in Peers}

CollectRecord(item, out, r) ==
    [called |-> TRUE, item |-> item,
     applied |-> IF item.info THEN "unused" ELSE out.apply,
     trace |-> r.trace, res |-> r.res]

CollectorInit ==
    /\ \E best \in 0..MaxChain, skip \in BOOLEAN :
           collector = NewCollector(best, skip)
    /\ colLast = NotCalled

\* The collector variables while another component runs.
CollectorIdle ==
    /\ collector = NewCollector(0, FALSE)
    /\ colLast = NotCalled

\* collector.collect(item)
CollectCall ==
    /\ Len(collector.chain.blocks) < MaxChain
    /\ \E item \in Items : \E out \in Outcomes(item) :
        LET r == Collect(collector, item, out)
        IN  /\ collector' = r.collector
            /\ colLast' = CollectRecord(item, out, r)

\* ------------------------------------------------- a run of the task chain
\* The driver holding the initial task state, nothing read yet.
NewDrive(t) ==
    [task |-> t, first |-> t.start_number, read |-> <<>>, sizes |-> <<>>,
     phase |-> "step"]

\* The driver after the step of its task state: the leaf ids the step read
\* and their number are noted; a failed step ends the run.
DriveStepped(d, res) ==
    LET ids == GetLeaves(d.task.accumulator, d.task.start_number,
                         d.task.batch_size)
    IN  [d EXCEPT !.read = @ \o ids,
                  !.sizes = Append(@, Len(ids)),
                  !.phase = IF res.tag = "ok" THEN "next" ELSE "failed"]

\* The driver after task.next(): it goes on with the state returned, or
\* ends the run when there is none.
DriveAdvanced(d) ==
    LET n == TaskNext(d.task)
    IN  IF n.some THEN [d EXCEPT !.task = n.val, !.phase = "step"]
        ELSE [d EXCEPT !.phase = "done"]

\* A run ends by itself when batch_size >= 1; one of batch_size 0 is cut.
MaxSteps == MaxLeaves + 2

DriveInit ==
    /\ \E n \in 0..MaxLeaves, start \in 0..(MaxLeaves + 1),
          flag \in BOOLEAN, batch \in 0..MaxBatch :
           drive = NewDrive(NewTask(Accumulator(n), start, flag, batch))
    /\ pending = <<>>

\* The drive variables while another component runs.
DriveIdle ==
    /\ drive = NewDrive(NewTask(Accumulator(MaxLeaves), 0, TRUE, MaxBatch))
    /\ pending = <<>>

\* The driver runs new_sub_task() of the state it holds.
DriveStep ==
    /\ drive.phase = "step"
    /\ Len(drive.sizes) < MaxSteps
    /\ \E local \in LocalChoices(drive.task) :
       \E fetch \in FetchChoices(drive.task, local) :
           drive' = DriveStepped(drive,
                                 SubTaskResult(drive.task, local, fetch))
    /\ UNCHANGED pending

\* The driver calls next() of the state it holds.
DriveNext ==
    /\ drive.phase = "next"
    /\ drive' = DriveAdvanced(drive)
    /\ UNCHANGED pending

\* ------------------------------------- the task chain feeding a collector
\* The walk-through's accumulator: ten leaves b1..b10; leaf order is not
\* the order of the ids.
ScenarioLeaves == [i \in 1..10 |-> (7 * i) % 11]

\* LocalStore::get_block_with_info on an empty store: None for every id.
EmptyLocalAnswer(t) ==
    LET ids == GetLeaves(t.accumulator, t.start_number, t.batch_size)
    IN  IF ids # <<>> /\ t.check_local_store
        THEN [tag |-> "ok",
              slots |-> [j \in 1..Len(ids) |-> LocalSlot(ids[j], "absent")]]
        ELSE NoLocal

\* Fetcher::fetch_block answering every requested id, in the order asked,
\* from peer p.
OrderedFetchAnswer(t, local, p) ==
    LET request == FetchRequest(t, local)
    IN  IF request.some
        THEN [tag |-> "ok",
              blocks |-> [i \in 1..Len(request.val) |->
                             [block |-> request.val[i], peer |-> p]]]
        ELSE NoFetch

EndToEndInit ==
    /\ \E flag \in BOOLEAN :
           drive = NewDrive(NewTask(ScenarioLeaves, 0, flag, 4))
    /\ pending = <<>>
    /\ \E best \in 0..MaxChain, skip \in BOOLEAN :
           collector = NewCollector(best, skip)
    /\ colLast = NotCalled

\* The driver runs new_sub_task() of the state it holds and queues the
\* items for the collector; it may do so ahead of the collector.
FetchStep ==
    /\ drive.phase = "step"
    /\ \E p \in Peers :
        LET local == EmptyLocalAnswer(drive.task)
            fetch == OrderedFetchAnswer(drive.task, local, p)
            res == SubTaskResult(drive.task, local, fetch)
        IN  /\ drive' = DriveStepped(drive, res)
            /\ pending' = pending \o res.items
    /\ UNCHANGED collectorVars

\* The driver calls next() of the state it holds.
FetchNext ==
    /\ drive.phase = "next"
    /\ drive' = DriveAdvanced(drive)
    /\ UNCHANGED <<pending, collectorVars>>

\* The driver hands the oldest queued item to collect; the chain takes the
\* block, the event handle may refuse the notification.
FeedCollector ==
    /\ pending # <<>>
    /\ \E h \in BOOLEAN :
        LET out == Outcome("ok", TRUE, TRUE, TRUE, h)
            r == Collect(collector, Head(pending), out)
        IN  /\ collector' = r.collector
            /\ colLast' = CollectRecord(Head(pending), out, r)
    /\ pending' = Tail(pending)
    /\ UNCHANGED drive

\* ------------------------------------------ the cursor in u64 arithmetic
\* u64, scaled down to WordBits bits: the values are 0 .. Word - 1.
Word == 2 ^ WordBits

\* The two builds: overflow checks on (an overflow panics) or off (it
\* wraps).
Builds == {"checked", "wrapping"}

\* BlockSyncTask::next with start_number + batch_size computed in the
\* word: while the sum fits it is TaskNext; past the word it panics in a
\* checked build and is compared after wrapping otherwise.
TaskNextWord(t, build) ==
    LET sum == t.start_number + t.batch_size
    IN  IF sum < Word THEN [tag |-> "ok", out |-> TaskNext(t)]
        ELSE IF build = "checked" THEN [tag |-> "panic", out |-> None]
        ELSE [tag |-> "ok",
              out |-> IF sum % Word > NumLeavesOf(t.accumulator) THEN None
                      ELSE Some([t EXCEPT !.start_number = sum % Word])]

\* BlockSyncTask::total_items: num_leaves() - start_number in the word; an
\* underflow panics in a checked build and wraps otherwise.
TotalItems(t, build) ==
    LET n == NumLeavesOf(t.accumulator)
    IN  IF t.start_number <= n
        THEN [tag |-> "ok", out |-> Some(n - t.start_number)]
        ELSE IF build = "checked" THEN [tag |-> "panic", out |-> None]
        ELSE [tag |-> "ok", out |-> Some((n - t.start_number) % Word)]

\* A chain starting at task state t.
NewProgress(t, build) ==
    [task |-> t, first |-> t.start_number,
     leaves |-> NumLeavesOf(t.accumulator), build |-> build,
     steps |-> 0, status |-> "running", hint |-> NotCalled]

ProgressInit ==
    \E n \in 0..MaxLeaves, start \in 0..(MaxLeaves + 1),
       batch \in 0..(Word - 1), build \in Builds :
        progress = NewProgress(NewTask(Accumulator(n), start, TRUE, batch),
                               build)

\* The progress variable while another component runs.
ProgressIdle ==
    progress = NewProgress(NewTask(Accumulator(MaxLeaves), 0, TRUE, MaxBatch),
                           "checked")

\* task.total_items(), for progress reporting.
ProgressTotalItems ==
    /\ progress.status = "running"
    /\ progress' =
           [progress EXCEPT
               !.hint = [called |-> TRUE,
                         cursor |-> progress.task.start_number,
                         leaves |-> NumLeavesOf(progress.task.accumulator),
                         res |-> TotalItems(progress.task, progress.build)]]

\* task.next(), the driver going on with the state returned.
ProgressNext ==
    /\ progress.status = "running"
    /\ progress.steps < MaxSteps
    /\ LET r == TaskNextWord(progress.task, progress.build)
       IN  progress' =
               IF r.tag = "panic" THEN [progress EXCEPT !.status = "panicked"]
               ELSE IF r.out.some
               THEN [progress EXCEPT !.task = r.out.val, !.steps = @ + 1]
               ELSE [progress EXCEPT !.status = "ended"]

\* The accumulator the task shares takes one more leaf.
ProgressGrow ==
    /\ progress.status = "running"
    /\ NumLeavesOf(progress.task.accumulator) < MaxLeaves
    /\ progress' =
           [progress EXCEPT
               !.task.accumulator =
                   Accumulator(NumLeavesOf(progress.task.accumulator) + 1)]

\* ------------------------------------------------------- specifications
Init ==
    StorageInit /\ AccInit /\ SyncIdle /\ CollectorIdle /\ DriveIdle
        /\ ProgressIdle

Next ==
    \/ StoragePut /\ UNCHANGED <<accVars, syncVars, pipelineVars>>
    \/ StorageRemove /\ UNCHANGED <<accVars, syncVars, pipelineVars>>
    \/ StorageGetCall /\ UNCHANGED <<accVars, syncVars, pipelineVars>>

Spec == Init /\ [][Next]_vars

NextAccumulator ==
    \/ AccGetCall /\ UNCHANGED <<storageVars, syncVars, pipelineVars>>
    \/ AccGetNode /\ UNCHANGED <<storageVars, syncVars, pipelineVars>>
    \/ AccSave /\ UNCHANGED <<storageVars, syncVars, pipelineVars>>
    \/ AccSaveNode /\ UNCHANGED <<storageVars, syncVars, pipelineVars>>
    \/ AccDeleteNodes /\ UNCHANGED <<storageVars, syncVars, pipelineVars>>
    \/ AccDeleteNodesIndex
           /\ UNCHANGED <<storageVars, syncVars, pipelineVars>>

SpecAccumulator == Init /\ [][NextAccumulator]_vars

InitSync ==
    StorageInit /\ AccInit /\ SyncInit /\ CollectorIdle /\ DriveIdle
        /\ ProgressIdle

NextSync ==
    \/ NewSubTask /\ UNCHANGED <<storageVars, accVars, pipelineVars>>
    \/ CallNext /\ UNCHANGED <<storageVars, accVars, pipelineVars>>
    \/ DriverAdvance /\ UNCHANGED <<storageVars, accVars, pipelineVars>>

SpecSync == InitSync /\ [][NextSync]_vars

InitCollector ==
    StorageInit /\ AccInit /\ SyncIdle /\ CollectorInit /\ DriveIdle
        /\ ProgressIdle

NextCollector ==
    CollectCall
        /\ UNCHANGED <<storageVars, accVars, syncVars, driveVars, progress>>

SpecCollector == InitCollector /\ [][NextCollector]_vars

InitDrive ==
    StorageInit /\ AccInit /\ SyncIdle /\ CollectorIdle /\ DriveInit
        /\ ProgressIdle

NextDrive ==
    \/ DriveStep
           /\ UNCHANGED <<storageVars, accVars, syncVars, collectorVars,
                          progress>>
    \/ DriveNext
           /\ UNCHANGED <<storageVars, accVars, syncVars, collectorVars,
                          progress>>

SpecDrive == InitDrive /\ [][NextDrive]_vars

InitEndToEnd ==
    StorageInit /\ AccInit /\ SyncIdle /\ EndToEndInit /\ ProgressIdle

NextEndToEnd ==
    \/ FetchStep /\ UNCHANGED <<storageVars, accVars, syncVars, progress>>
    \/ FetchNext /\ UNCHANGED <<storageVars, accVars, syncVars, progress>>
    \/ FeedCollector /\ UNCHANGED <<storageVars, accVars, syncVars, progress>>

SpecEndToEnd == InitEndToEnd /\ [][NextEndToEnd]_vars

otherVars ==
    <<storageVars, accVars, syncVars, collectorVars, driveVars>>

InitProgress ==
    /\ StorageInit /\ AccInit /\ SyncIdle /\ CollectorIdle /\ DriveIdle
    /\ ProgressInit

NextProgress ==
    \/ ProgressTotalItems /\ UNCHANGED otherVars
    \/ ProgressNext /\ UNCHANGED otherVars
    \/ ProgressGrow /\ UNCHANGED otherVars

SpecProgress == InitProgress /\ [][NextProgress]_vars

\* ------------------------------------------------------ claims on Storage
IsMutation(c) == c.op \in {"put", "remove"}

\* What a mutation of key k leaves in a tier that reflects it.
NewContent(c) == IF c.op = "put" THEN c.val ELSE Absent

\* C1: after Storage.put(k, v) returned success, Storage.get(k) returns v
\* (whichever of its tier reads answers) and a read of k from the durable
\* store alone returns v, after any sequence of earlier put/remove calls.
C1_PutThenGet ==
    (last.op = "put" /\ last.res.tag = "ok") =>
        /\ \A cOk \in BOOLEAN, dOk \in BOOLEAN :
               (cOk \/ dOk) =>
                   StorageGet(cache, db, last.key, cOk, dOk) = Ok(last.val)
        /\ InnerGet(db, last.key, TRUE) = Ok(last.val)

\* C1's case: a successful put of a value over a key whose tiers held
\* something else or disagreed before, with the other key half-committed.
C1_Witness ==
    /\ last.op = "put" /\ last.res.tag = "ok" /\ last.val = 2
    /\ \E k \in Keys : k # last.key /\ cache[k] # db[k]

\* C2: put writes the durable store first and the cache only after the
\* durable write succeeded; when the durable write fails, put returns an
\* error to the caller and the cache is unchanged for every key.
C2_PutDurableFailureReturnsError ==
    [][last'.op = "put" =>
          /\ (cache' # cache =>
                  last'.dbOk /\ db'[last'.key] = last'.val)
          /\ (~last'.dbOk => last'.res.tag = "err" /\ cache' = cache)]_vars

\* C3: remove deletes from the durable store first and from the cache only
\* if that succeeded; if the durable delete fails, remove returns an error,
\* the cache is unchanged and every later get(k) answers as before the call.
C3_RemoveDurableFailure ==
    [][last'.op = "remove" =>
          /\ (cache' # cache =>
                  last'.dbOk /\ db'[last'.key] = Absent)
          /\ (~last'.dbOk =>
                  /\ last'.res.tag = "err"
                  /\ cache' = cache
                  /\ \A cOk \in BOOLEAN, dOk \in BOOLEAN :
                         StorageGet(cache', db', last'.key, cOk, dOk)
                             = StorageGet(cache, db, last'.key, cOk, dOk))]_vars

\* C3's case: a remove whose durable delete failed, on a key both tiers hold.
C3_Witness ==
    /\ last.op = "remove" /\ ~last.dbOk /\ last.res.tag = "err"
    /\ cache[last.key] # Absent /\ db[last.key] # Absent

\* Both tiers reflect the mutation of its key.
BothReflect(c, cacheAfter, dbAfter) ==
    cacheAfter[c.key] = NewContent(c) /\ dbAfter[c.key] = NewContent(c)

\* Both tiers hold the key's pre-call content.
BothKeep(c, cacheBefore, dbBefore, cacheAfter, dbAfter) ==
    cacheAfter[c.key] = cacheBefore[c.key] /\ dbAfter[c.key] = dbBefore[c.key]

\* C4 as stated: whenever a put or remove has completed, with success or
\* with an error (durable-tier or cache-tier failure), the cache and the
\* durable store either both reflect the mutation or both hold the key's
\* pre-call content.
C4_AllOrNothing ==
    [][(IsMutation(last') /\ last'.res.tag \in {"ok", "err"}) =>
          \/ BothReflect(last', cache', db')
          \/ BothKeep(last', cache, db, cache', db')]_vars

\* C4 as amended: a put or remove that ended without a cache-tier failure
\* (with success, or on a durable-tier failure) left both tiers reflecting
\* the mutation or both holding the key's pre-call content; one whose
\* durable call succeeded and whose cache call failed returned an error,
\* the durable store reflects the mutation and the cache holds the key's
\* pre-call content.
C4_AllOrNothingUnlessCacheFails ==
    [][IsMutation(last') =>
          IF last'.dbOk /\ ~last'.cacheOk
          THEN /\ last'.res.tag = "err"
               /\ db'[last'.key] = NewContent(last')
               /\ cache'[last'.key] = cache[last'.key]
          ELSE \/ BothReflect(last', cache', db')
               \/ BothKeep(last', cache, db, cache', db')]_vars

\* C4's case: a put that returned an error after the durable write, the two
\* tiers now disagreeing on the key.
C4_Witness ==
    /\ last.op = "put" /\ last.dbOk /\ ~last.cacheOk /\ last.res.tag = "err"
    /\ db[last.key] = last.val /\ cache[last.key] # last.val

\* --------------------------------------------- claims on AccumulatorStore
\* C5: get(index) for an index that has no index->hash mapping never
\* returns Ok(None) and performs no node lookup; whenever the index lookup
\* itself completes, get fails with an error.
C5_DanglingIndexIsError ==
    (accLast.op = "get" /\ indexStore[accLast.index] = Absent) =>
        /\ accLast.res.tag # "ok"
        /\ accLast.lookups = 0
        /\ (accLast.idxOk => accLast.res = Err)

\* C5's case: get of an unmapped index answered with an error, while the
\* other index is mapped and node bodies exist.
C5_Witness ==
    /\ accLast.op = "get" /\ accLast.idxOk /\ accLast.res = Err
    /\ indexStore[accLast.index] = Absent
    /\ \E i \in Indices : indexStore[i] # Absent
    /\ \E h \in Hashes : nodeStore[h] # Absent

\* C6 as stated: an index that has a mapping is never answered Ok(None) by
\* get(index); a mapped hash without a node body makes get fail.
C6_MappedIndexNeverAbsent ==
    (accLast.op = "get" /\ indexStore[accLast.index] # Absent) =>
        accLast.res # Ok(Absent)

\* C6 as amended: get(index) on an index that has a mapping answers with
\* the node store's own lookup of the mapped hash; when that hash has no
\* node body the answer is Ok(None), and get fails only when one of its
\* two lookups fails.
C6_MappedIndexPassesNodeLookup ==
    (accLast.op = "get" /\ accLast.idxOk
       /\ indexStore[accLast.index] # Absent) =>
        LET h == indexStore[accLast.index]
        IN  /\ accLast.lookups = 1
            /\ (accLast.nodeOk /\ nodeStore[h] = Absent =>
                    accLast.res = Ok(Absent))
            /\ (accLast.nodeOk /\ nodeStore[h] # Absent =>
                    accLast.res = Ok(h))
            /\ (accLast.res.tag = "err" => ~accLast.nodeOk)

\* C6's case: get of a mapped index whose hash has no node body answered
\* Ok(None), while the node store holds another body.
C6_Witness ==
    /\ accLast.op = "get" /\ accLast.idxOk /\ accLast.nodeOk
    /\ indexStore[accLast.index] # Absent
    /\ nodeStore[indexStore[accLast.index]] = Absent
    /\ accLast.res = Ok(Absent)
    /\ \E h \in Hashes : nodeStore[h] # Absent

\* The indices a delete_nodes_index call has removed when it returns: the
\* whole list, or the entries before the removal that failed.
RemovedBy(c) ==
    {c.list[j] : j \in {n \in 1..Len(c.list) : c.failAt = 0 \/ n < c.failAt}}

\* C7: delete_nodes_index with an empty list fails and leaves every
\* index->hash mapping unchanged; with a non-empty list it removes the
\* mappings of the listed indices in list order (all of them when it
\* returns Ok, those before the failing removal when one fails) and no
\* other mapping.
C7_DeleteNodesIndex ==
    [][accLast'.op = "delete_nodes_index" =>
          /\ nodeStore' = nodeStore
          /\ IF accLast'.list = <<>>
             THEN accLast'.res = Err /\ indexStore' = indexStore
             ELSE /\ accLast'.res = Unit(accLast'.failAt = 0)
                  /\ indexStore' =
                         [i \in Indices |->
                             IF i \in RemovedBy(accLast') THEN Absent
                             ELSE indexStore[i]]]_vars

\* C7's case: the empty call has failed with every mapping still in place.
C7_Witness ==
    /\ accLast.op = "delete_nodes_index" /\ accLast.list = <<>>
    /\ accLast.res = Err
    /\ \A i \in Indices : indexStore[i] # Absent

\* ------------------------------------------------ claims on BlockSyncTask
\* The ids of the blocks of a batch, in the batch's order.
BlocksOf(items) == [i \in 1..Len(items) |-> items[i].block]

\* Every id in ids is the id of a block the Fetcher returned.
Covers(fetch, ids) ==
    \A i \in 1..Len(ids) :
        \E j \in 1..Len(fetch.blocks) : fetch.blocks[j].block = ids[i]

\* C8: a local-first step whose LocalStore answered and whose Fetcher
\* returned, in any order, the blocks the LocalStore lacked returns a
\* batch with exactly one item per requested identifier, in the order of
\* the requested identifiers; no local-first step returns a batch in
\* another order.
C8_LocalFirstKeepsOrder ==
    (stepOut.called /\ stepOut.localFirst) =>
        /\ (stepOut.res.tag = "ok" => BlocksOf(stepOut.res.items) = stepOut.ids)
        /\ ((stepOut.local.tag = "ok" /\ stepOut.request.some
                /\ stepOut.fetch.tag = "ok"
                /\ Covers(stepOut.fetch, stepOut.request.val))
               => stepOut.res.tag = "ok")
        /\ ((stepOut.local.tag = "ok" /\ stepOut.ids # <<>>
                /\ ~stepOut.request.some)
               => stepOut.res.tag = "ok")

\* C8's case: three identifiers, the first found locally with execution
\* info, the other two fetched, the Fetcher answering with the third
\* block before the second.
C8_Witness ==
    /\ stepOut.called /\ stepOut.localFirst /\ stepOut.res.tag = "ok"
    /\ Len(stepOut.ids) = 3
    /\ stepOut.local.tag = "ok" /\ stepOut.local.slots[1].some
    /\ stepOut.res.items[1].info
    /\ stepOut.request = Some(<<stepOut.ids[2], stepOut.ids[3]>>)
    /\ BlocksOf(stepOut.fetch.blocks) = <<stepOut.ids[3], stepOut.ids[2]>>
    /\ BlocksOf(stepOut.res.items) = stepOut.ids

\* C9 as stated: a step with local-first disabled returns a batch whose
\* item i is the block of requested identifier i, whatever the Fetcher
\* answers.
C9_FetchAllMapsOneToOne ==
    (stepOut.called /\ ~stepOut.localFirst /\ stepOut.res.tag = "ok") =>
        BlocksOf(stepOut.res.items) = stepOut.ids

\* C9 as amended: a step with local-first disabled requests the whole
\* batch from the Fetcher and returns the Fetcher's answer item for item,
\* in the Fetcher's order (its error as the step's error); the batch maps
\* 1:1 onto the requested identifiers exactly when the Fetcher answered
\* with the requested blocks in the requested order.
C9_FetchAllReturnsFetcherOrder ==
    (stepOut.called /\ ~stepOut.localFirst /\ stepOut.ids # <<>>) =>
        /\ stepOut.request = Some(stepOut.ids)
        /\ stepOut.res.tag = stepOut.fetch.tag
        /\ (stepOut.fetch.tag = "ok" =>
               /\ Len(stepOut.res.items) = Len(stepOut.fetch.blocks)
               /\ \A i \in 1..Len(stepOut.fetch.blocks) :
                      stepOut.res.items[i] =
                          SyncBlockData(stepOut.fetch.blocks[i].block, FALSE,
                                        stepOut.fetch.blocks[i].peer)
               /\ (BlocksOf(stepOut.res.items) = stepOut.ids
                      <=> BlocksOf(stepOut.fetch.blocks) = stepOut.ids))

\* C9's case: two identifiers requested, the Fetcher answering with both
\* blocks in the opposite order, the batch returned in that order.
C9_Witness ==
    /\ stepOut.called /\ ~stepOut.localFirst /\ stepOut.res.tag = "ok"
    /\ Len(stepOut.ids) = 2 /\ Len(stepOut.res.items) = 2
    /\ stepOut.res.items[1].block = stepOut.ids[2]
    /\ stepOut.res.items[2].block = stepOut.ids[1]

\* C10: next returns no state exactly when cursor + batch_size exceeds the
\* accumulator's leaf count; otherwise it returns a state with the cursor
\* advanced by batch_size and every other field as in the task, and the
\* task it was called on is as it was.
C10_NextAdvancesOrEnds ==
    [][(nextOut' # nextOut /\ nextOut'.called) =>
          /\ task' = task
          /\ (~nextOut'.out.some <=>
                 task.start_number + task.batch_size
                     > NumLeavesOf(task.accumulator))
          /\ (nextOut'.out.some =>
                 /\ nextOut'.out.val.start_number =
                        task.start_number + task.batch_size
                 /\ nextOut'.out.val.accumulator = task.accumulator
                 /\ nextOut'.out.val.batch_size = task.batch_size
                 /\ nextOut'.out.val.check_local_store
                        = task.check_local_store
                 /\ nextOut'.out.val.fetcher = task.fetcher
                 /\ nextOut'.out.val.local_store = task.local_store)]_vars

\* C10's case: next called with cursor + batch_size equal to the leaf
\* count has returned the state whose cursor is the leaf count.
C10_Witness ==
    /\ nextOut.called /\ nextOut.out.some
    /\ task.batch_size > 0
    /\ task.start_number + task.batch_size = NumLeavesOf(task.accumulator)
    /\ nextOut.out.val.start_number = NumLeavesOf(task.accumulator)

\* ------------------------------------- further claims on Storage::get
\* The contents a tier can have.
Contents == [Keys -> Vals \cup {Absent}]

\* C15: Storage.get(k) returns the cache's answer, "not present" included,
\* whenever the cache call completes without an error, whatever the
\* durable store holds and whether or not it could be read; when the cache
\* call fails it returns the durable store's result (value, absence or
\* error).
C15_GetCacheAnswerIsFinal ==
    last.op = "get" =>
        /\ (last.cacheOk =>
               /\ last.res = Ok(cache[last.key])
               /\ \A d \in Contents, dOk \in BOOLEAN :
                      StorageGet(cache, d, last.key, TRUE, dOk) = last.res)
        /\ (~last.cacheOk => last.res = InnerGet(db, last.key, last.dbOk))

\* C15's case: the cache answered "not present" for a key the durable
\* store holds, and get returned "not present".
C15_Witness ==
    /\ last.op = "get" /\ last.cacheOk /\ last.res = Ok(Absent)
    /\ cache[last.key] = Absent /\ db[last.key] # Absent

\* ------------------------------- further claims on AccumulatorStore
\* C16: delete_nodes removes the listed hashes from the node namespace in
\* list order and stops at the first removal that fails: it returns that
\* error, the hashes before it are removed, the failing hash and those
\* after it are as they were, and the index namespace is unchanged.
C16_DeleteNodesStopsAtFirstError ==
    [][accLast'.op = "delete_nodes" =>
          /\ indexStore' = indexStore
          /\ accLast'.res = Unit(accLast'.failAt = 0)
          /\ nodeStore' =
                 [h \in Hashes |->
                     IF h \in RemovedBy(accLast') THEN Absent
                     ELSE nodeStore[h]]]_vars

\* C16's case: the first of two removals failed; both node bodies are
\* still stored and the call returned the error.
C16_Witness ==
    /\ accLast.op = "delete_nodes" /\ Len(accLast.list) = 2
    /\ accLast.failAt = 1 /\ accLast.res = Err
    /\ nodeStore[accLast.list[1]] # Absent
    /\ nodeStore[accLast.list[2]] # Absent
    /\ \E i \in Indices : indexStore[i] # Absent

\* ----------------------------------- further claims on BlockSyncTask
\* The requested ids the LocalStore answered None for, in order.
Unresolved(ids, slots) ==
    SelectSeq(ids, LAMBDA id :
        \E j \in 1..Len(ids) : ids[j] = id /\ ~slots[j].some)

\* C17: in a local-first step whose LocalStore answered, the Fetcher is
\* called with exactly the identifiers the LocalStore did not resolve, and
\* not at all when it resolved them all; if the Fetcher's blocks leave one
\* of those identifiers out, the step fails with an error and returns no
\* batch.
C17_UnresolvedIdIsFatal ==
    (stepOut.called /\ stepOut.localFirst /\ stepOut.ids # <<>>
       /\ stepOut.local.tag = "ok") =>
        LET missing == Unresolved(stepOut.ids, stepOut.local.slots)
        IN  /\ stepOut.request =
                   (IF missing = <<>> THEN None ELSE Some(missing))
            /\ ((stepOut.request.some /\ stepOut.fetch.tag = "ok"
                   /\ ~Covers(stepOut.fetch, missing))
                  => (stepOut.res.tag = "err" /\ stepOut.res.items = <<>>))

\* C17's case: three identifiers, one found locally, the Fetcher returning
\* one of the other two; the step failed.
C17_Witness ==
    /\ stepOut.called /\ stepOut.localFirst /\ Len(stepOut.ids) = 3
    /\ stepOut.local.tag = "ok" /\ stepOut.local.slots[2].some
    /\ stepOut.request = Some(<<stepOut.ids[1], stepOut.ids[3]>>)
    /\ stepOut.fetch.tag = "ok"
    /\ BlocksOf(stepOut.fetch.blocks) = <<stepOut.ids[3]>>
    /\ stepOut.res.tag = "err"

\* ------------------------------------------------ claims on BlockCollector
\* The calls of a trace, in order.
CallsOf(trace) == [i \in 1..Len(trace) |-> trace[i].call]

ApplyCalls == {"apply", "apply_with_verifier"}

\* C12: collect on an item that carries its execution info connects the
\* block and calls neither apply nor apply_with_verifier; when the connect
\* succeeds the chain is longer by exactly that block and collect returns
\* "need more input"; the clock is not adjusted and no notification sent.
C12_ExecutedItemIsConnected ==
    [][(colLast'.called /\ colLast'.item.info) =>
          /\ CallsOf(colLast'.trace) = <<"connect">>
          /\ colLast'.trace[1].block = colLast'.item.block
          /\ collector'.chain.time = collector.chain.time
          /\ IF colLast'.trace[1].ok
             THEN /\ colLast'.res = "need"
                  /\ collector'.chain.blocks =
                         Append(collector.chain.blocks, colLast'.item.block)
             ELSE /\ colLast'.res = "err_connect"
                  /\ collector' = collector]_vars

\* C12's case: a second block was connected from an item with execution
\* info.
C12_Witness ==
    /\ colLast.called /\ colLast.item.info /\ colLast.res = "need"
    /\ Len(collector.chain.blocks) = 2
    /\ collector.chain.blocks[2] = colLast.item.block
    /\ \A i \in 1..Len(colLast.trace) :
           colLast.trace[i].call \notin ApplyCalls

\* C13: when the application of an item without execution info fails with
\* a verification failure other than "block from the future", collect
\* calls save_failed_block with the block and its origin peer right after
\* the application; once the record is written it reports the peer if the
\* peer is known, makes no report if it is not, and returns the
\* verification error; the chain is as it was.
C13_PeerFaultRecordedThenReported ==
    [][(colLast'.called /\ colLast'.applied = "verify") =>
          /\ Len(colLast'.trace) >= 2
          /\ colLast'.trace[1].call \in ApplyCalls
          /\ colLast'.trace[2].call = "save_failed_block"
          /\ colLast'.trace[2].block = colLast'.item.block
          /\ colLast'.trace[2].peer = colLast'.item.peer
          /\ collector' = collector
          /\ (colLast'.trace[2].ok =>
                /\ colLast'.res = "err_verify"
                /\ IF colLast'.item.peer # "none"
                   THEN /\ Len(colLast'.trace) = 3
                        /\ colLast'.trace[3].call = "report_peer"
                        /\ colLast'.trace[3].peer = colLast'.item.peer
                   ELSE Len(colLast'.trace) = 2)]_vars

\* C13's case: a block of a known peer failed verification; the record was
\* written, then the peer reported.
C13_Witness ==
    /\ colLast.called /\ colLast.applied = "verify"
    /\ colLast.item.peer = "p1" /\ colLast.res = "err_verify"
    /\ CallsOf(colLast.trace) \in
           {<<a, "save_failed_block", "report_peer">> : a \in ApplyCalls}

\* C14 as stated: every failed application that is not "block from the
\* future", whatever kind of error the chain returned, has the failed
\* block handed to save_failed_block and, once that is written and the
\* peer is known, the peer reported.
C14_EveryFailureRecorded ==
    (colLast.called /\ colLast.applied \in {"verify", "other"}) =>
        /\ \E i \in 1..Len(colLast.trace) :
               colLast.trace[i].call = "save_failed_block"
        /\ ((colLast.item.peer # "none" /\ colLast.res # "err_save") =>
               \E i \in 1..Len(colLast.trace) :
                   colLast.trace[i].call = "report_peer")

\* C14, amended: a failed application whose error is a ConnectBlockError
\* other than FutureBlock has the failed block handed to
\* save_failed_block and, once that is written and the peer is known, the
\* peer reported; an error of any other kind is returned as it is, with no
\* failed-block record and no peer report.
C14_OnlyConnectErrorsRecorded ==
    /\ (colLast.called /\ colLast.applied = "verify") =>
           /\ \E i \in 1..Len(colLast.trace) :
                  colLast.trace[i].call = "save_failed_block"
           /\ ((colLast.item.peer # "none" /\ colLast.res # "err_save") =>
                  \E i \in 1..Len(colLast.trace) :
                      colLast.trace[i].call = "report_peer")
    /\ (colLast.called /\ colLast.applied = "other") =>
           /\ colLast.res = "err_other"
           /\ Len(colLast.trace) = 1
           /\ colLast.trace[1].call \in ApplyCalls

\* C14's case: the application of a block of a known peer failed with an
\* error that is no ConnectBlockError.
C14_Witness ==
    /\ colLast.called /\ colLast.applied = "other"
    /\ colLast.item.peer = "p1" /\ colLast.res = "err_other"

\* C18: when the application of an item without execution info fails as
\* "block from the future", collect returns that error and has called
\* nothing but the application: no failed-block record, no peer report, no
\* clock adjustment, no block-connected notification; the collector is as
\* it was.
C18_FutureBlockHasNoSideEffect ==
    [][(colLast'.called /\ colLast'.applied = "future") =>
          /\ colLast'.res = "err_future"
          /\ Len(colLast'.trace) = 1
          /\ colLast'.trace[1].call \in ApplyCalls
          /\ collector' = collector]_vars

\* C18's case: a block of a known peer came from the future, after the
\* clock had been adjusted to an earlier block.
C18_Witness ==
    /\ colLast.called /\ colLast.applied = "future"
    /\ colLast.item.peer = "p1" /\ colLast.res = "err_future"
    /\ collector.chain.time # 0
    /\ collector.chain.time # TimestampOf(colLast.item.block)

\* C19: when the application of an item without execution info succeeds,
\* the chain clock is adjusted to the block's timestamp; once the chain's
\* total difficulty is read, the block-connected notification is handed to
\* the event handle iff that total difficulty is strictly greater than the
\* one of the collector's best block info, and collect returns "need more
\* input" whether or not the notification could be sent.
C19_ClockThenNoticeIfHeavier ==
    [][(colLast'.called /\ colLast'.applied = "ok") =>
          LET calls == CallsOf(colLast'.trace)
              heavier == collector'.chain.total_difficulty >
                             collector.current_block_info.total_difficulty
          IN  /\ collector'.chain.time = TimestampOf(colLast'.item.block)
              /\ collector'.chain.blocks =
                     Append(collector.chain.blocks, colLast'.item.block)
              /\ Len(calls) >= 3
              /\ calls[1] \in ApplyCalls
              /\ calls[2] = "adjust"
              /\ calls[3] = "get_total_difficulty"
              /\ IF colLast'.trace[3].ok
                 THEN /\ colLast'.res = "need"
                      /\ IF heavier
                         THEN Len(calls) = 4 /\ calls[4] = "handle"
                         ELSE Len(calls) = 3
                 ELSE Len(calls) = 3 /\ colLast'.res = "err_td"]_vars

\* C19's case: the applied block made the chain heavier than the best
\* known block, the event handle refused the notification, and collect
\* returned "need more input".
C19_Witness ==
    /\ colLast.called /\ colLast.applied = "ok" /\ colLast.res = "need"
    /\ Len(colLast.trace) = 4
    /\ colLast.trace[4].call = "handle" /\ ~colLast.trace[4].ok
    /\ collector.chain.time = TimestampOf(colLast.item.block)

\* ------------------------------------------------ claims on the task chain
\* C20: for a task with batch_size >= 1 and an initial cursor not past the
\* leaf count, the chain of states next() produces is finite (at most one
\* state per leaf left, plus one), the leaf ids its steps read, in step
\* order, are the accumulator's leaves from the initial cursor on, each
\* once and in order, up to the last leaf when the chain has ended, and
\* every step but the last reads batch_size leaves.
C20_ChainReadsEachLeafOnce ==
    LET acc == drive.task.accumulator
        n == NumLeavesOf(acc)
    IN  (drive.task.batch_size >= 1 /\ drive.first <= n) =>
            /\ Len(drive.sizes) <= n - drive.first + 1
            /\ Len(drive.read) <= n - drive.first
            /\ drive.read =
                   [i \in 1..Len(drive.read) |-> acc[drive.first + i]]
            /\ \A i \in 1..(Len(drive.sizes) - 1) :
                   drive.sizes[i] = drive.task.batch_size
            /\ (drive.phase = "done" => Len(drive.read) = n - drive.first)

\* C20's case: a chain over three leaves with batch_size 2 has ended after
\* a full and a partial step.
C20_Witness ==
    /\ drive.phase = "done" /\ drive.first = 0
    /\ drive.task.batch_size = 2
    /\ drive.sizes = <<2, 1>>
    /\ drive.read = drive.task.accumulator

\* C11: over an accumulator of ten leaves b1..b10, with initial cursor 0,
\* batch_size 4, an empty local store and a Fetcher returning the blocks
\* in the order asked, the run takes three steps with batches of 4, 4 and
\* 2 leaves until next() returns nothing, no step fails, the collector is
\* fed the blocks in leaf order, and once all items are collected the
\* chain holds the ten blocks in leaf order with b10 as its head.
C11_TenLeavesInThreeSteps ==
    LET chain == collector.chain.blocks
        expected == <<4, 4, 2>>
    IN  /\ drive.phase # "failed"
        /\ Len(drive.sizes) <= Len(expected)
        /\ \A i \in 1..Len(drive.sizes) : drive.sizes[i] = expected[i]
        /\ chain \o BlocksOf(pending) = drive.read
        /\ chain = [i \in 1..Len(chain) |-> ScenarioLeaves[i]]
        /\ ((drive.phase = "done" /\ pending = <<>>) =>
               /\ drive.sizes = expected
               /\ chain = ScenarioLeaves
               /\ chain[Len(chain)] = ScenarioLeaves[10])

\* C11's case: the run has ended and the collector has applied the last
\* of the ten blocks.
C11_Witness ==
    /\ drive.phase = "done" /\ pending = <<>>
    /\ Len(collector.chain.blocks) = 10
    /\ colLast.called /\ colLast.applied = "ok"
    /\ colLast.item.block = ScenarioLeaves[10]

\* -------------------------------------------------- claims on total_items
\* C21: in every task state reached through next from an initial task
\* whose cursor is at most the accumulator's leaf count, the cursor is at
\* most the leaf count, so every total_items() call subtracts without
\* underflow, in either build, and returns the number of leaves from the
\* cursor to the last leaf.
C21_CursorNeverPassesLeaves ==
    progress.first <= progress.leaves =>
        /\ progress.task.start_number
               <= NumLeavesOf(progress.task.accumulator)
        /\ (progress.hint.called =>
               /\ progress.hint.cursor <= progress.hint.leaves
               /\ progress.hint.res =
                      [tag |-> "ok",
                       out |-> Some(progress.hint.leaves
                                        - progress.hint.cursor)])

\* C21's case: after two calls of next, one leaf short of the end,
\* total_items answered 1.
C21_Witness ==
    /\ progress.first <= progress.leaves
    /\ progress.steps = 2
    /\ progress.hint.called
    /\ progress.hint.cursor = progress.task.start_number
    /\ progress.hint.cursor > progress.first
    /\ progress.hint.res.out = Some(1)

====
